---- MODULE Spec2Model ----
(***************************************************************************)
(* Session interaction engine of the learning portal front end:           *)
(*   - the chat controller of LearningPage (message history, send,        *)
(*     the 15 s abort timer, the axios transport ceiling),                *)
(*   - the quiz state machine of QuizPage (setup -> quiz -> result).      *)
(* One page is mounted at a time (the router renders one route element),  *)
(* so `route` selects which controller's handlers can run.                *)
(*                                                                         *)
(* Text is a sequence of fragments (strings); typed input is a sequence   *)
(* over Chars, fixed texts are sequences of one or more fragments, and    *)
(* concatenation is \o.  Optional values (null / undefined) are the       *)
(* empty sequence, a present value v is <<v>>.                            *)
(* Message ids derived from Date.now() keep only their offset ("now",     *)
(* "now+1"); timestamps are not modelled.                                 *)
(***************************************************************************)
EXTENDS Integers, Sequences, FiniteSets, TLC

(* ------------------------------ bounds -------------------------------- *)
MaxInputLen == 2
MaxMessages == 5
TickMs == 30000
MaxQuestions == 2
MaxNow == 2
MaxTotal == 42
MaxSessionTime == 2
MaxWatchOps == 3

(* ------------------------- program constants -------------------------- *)
ChatTimeoutMs == 15000
ApiTimeoutMs == 120000

(* --------------------------- value spaces ----------------------------- *)
Null == <<>>

Some(v) == <<v>>

Op(name, arg) == [name |-> name, arg |-> arg]

Chars == {" ", "a"}

Texts == UNION {[1..n -> Chars] : n \in 0..MaxInputLen}

Students == {[id |-> "average_student", name |-> "Arjun (Average)", xp |-> 480, level |-> 5]}

Subjects == {"math", "science"}

\* the subject of the /learn/:subjectId/:chapterId routes visited
LearnSubjects == {"math"}

Chapters == {"ch1_linear_equations", "ch2_polynomials"}

quickQuestions == {<<"Explain the key concepts">>}

ChatResponses ==
    {[answer |-> <<"answer-1">>, sources |-> Some(<<"ncert-1">>), difficulty |-> "easy"],
     [answer |-> <<"answer-2">>, sources |-> Some(<<>>), difficulty |-> "hard"]}

\* What the axios instance rejects with: its own timeout, a network error,
\* or a non-2xx status.
TimeoutError ==
    [name |-> "AxiosError", code |-> "ECONNABORTED",
     message |-> <<"timeout", " of 120000ms exceeded">>]

AxiosErrors ==
    {TimeoutError,
     [name |-> "AxiosError", code |-> "ERR_NETWORK", message |-> <<"Network Error">>],
     [name |-> "AxiosError", code |-> "ERR_BAD_RESPONSE",
      message |-> <<"Request failed with status code 500">>]}

\* What GET /subjects and GET /subjects/{id}/chapters return, combined as
\* fetchSubjects combines them (withChapters).
Catalog ==
    <<[id |-> "math", chapters |-> <<"ch1_linear_equations", "ch2_polynomials">>],
      [id |-> "science", chapters |-> <<"ch1_chemical_reactions">>]>>

\* Values the subject / chapter query parameters of /quiz may carry.
SubjectParams == {""} \cup Subjects

ChapterParams == {"", "ch1_linear_equations", "ch1_chemical_reactions"}

QuestionIds == {1, 2}

OptionList == <<"A", "B">>

Question(i) == [id |-> i, options |-> OptionList]

QuestionLists ==
    UNION {[1..n -> {Question(i) : i \in QuestionIds}] : n \in 0..MaxQuestions}

\* Bodies POST /quiz/generate may answer with: no body, a body without a
\* question list, or a body with a question list of any length.
GenerateResponses ==
    {Null, Some([quiz_id |-> "quiz-a", difficulty |-> "easy", questions |-> Null])}
    \cup {Some([quiz_id |-> "quiz-a", difficulty |-> "easy", questions |-> Some(qs)]) :
             qs \in QuestionLists}

\* Bodies POST /quiz/submit may answer with.
SubmitResponses ==
    {Null,
     Some([score |-> 1, total |-> 2, xp_gained |-> 10, difficulty |-> "medium"]),
     Some([score |-> 2, total |-> 2, xp_gained |-> 20, difficulty |-> "hard"])}

\* Bodies POST /quiz/submit may answer with, over every score and total.
ScoredResponses ==
    UNION {{Some([score |-> sc, total |-> t, xp_gained |-> 10, difficulty |-> "medium"]) :
               sc \in 0..t} : t \in 1..MaxTotal}

VideoIds == {"v1", "v2"}

\* Lists GET /videos may answer with: the videos of the library, each
\* watched or not by the student.
VideoLists ==
    {<<[id |-> "v1", watched |-> w1], [id |-> "v2", watched |-> w2]>> :
        w1 \in BOOLEAN, w2 \in BOOLEAN}

(* --------------------------- pure helpers ----------------------------- *)
IsPrefix(s, t) == Len(s) <= Len(t) /\ SubSeq(t, 1, Len(s)) = s

Last(s) == s[Len(s)]

Min(a, b) == IF a <= b THEN a ELSE b

RECURSIVE TrimStart(_)
TrimStart(t) ==
    IF t # <<>> /\ Head(t) = " " THEN TrimStart(Tail(t)) ELSE t

RECURSIVE TrimEnd(_)
TrimEnd(t) ==
    IF t # <<>> /\ Last(t) = " " THEN TrimEnd(SubSeq(t, 1, Len(t) - 1)) ELSE t

\* String.prototype.trim
Trim(t) == TrimEnd(TrimStart(t))

\* String.prototype.includes, on fragments
Includes(msg, frag) == \E i \in DOMAIN msg : msg[i] = frag

\* chapterId?.replace(/_/g, ' ').replace(/\bch\d+\s*/i, '')
chapterDisplay(ch) ==
    CASE ch = "ch1_linear_equations" -> "linear equations"
      [] ch = "ch2_polynomials" -> "polynomials"
      [] OTHER -> ch

TimeoutText == <<"The AI is taking too long to respond. Please try a simpler question.">>

ConnectionText == <<"I'm having trouble connecting. Please try again.">>

TimeoutWarning == Some(<<"Request timed out. The AI model may be busy.">>)

ConnectionWarning == Some(<<"Connection error.">>)

GreetingMessage(st, ch) ==
    [id |-> "init", role |-> "assistant",
     content |-> <<"Hello ", st.name, "! I'm your AI tutor for **", chapterDisplay(ch),
                   "**. I'll adapt my explanations to your level. What would you like to learn?">>,
     difficulty |-> Null, sources |-> Null]

UserMessage(text) ==
    [id |-> "now", role |-> "user", content |-> text,
     difficulty |-> Null, sources |-> Null]

AnswerMessage(response) ==
    [id |-> "now+1", role |-> "assistant", content |-> response.answer,
     difficulty |-> Some(response.difficulty), sources |-> response.sources]

ErrorMessage(errorMsg) ==
    [id |-> "now", role |-> "assistant", content |-> errorMsg,
     difficulty |-> Null, sources |-> Null]

\* isTimeout without the test of the message: only an AbortError counts.
isTimeout_NameOnly(err) == err.name = "AbortError"

\* err?.name === 'AbortError' || err?.message?.includes('timeout')
isTimeout(err) == err.name = "AbortError" \/ Includes(err.message, "timeout")

\* The greeting effect without its messages.length === 0 test.
GreetingEffect_Replace(msgs, st, ch) ==
    IF st # Null THEN <<GreetingMessage(st[1], ch)>> ELSE msgs

\* The greeting effect appending a greeting on every run.
GreetingEffect_Append(msgs, st, ch) ==
    IF st # Null THEN Append(msgs, GreetingMessage(st[1], ch)) ELSE msgs

\* The initial-greeting effect: the history it leaves when it runs.
GreetingEffect(msgs, st, ch) ==
    IF Len(msgs) = 0 /\ st # Null THEN <<GreetingMessage(st[1], ch)>> ELSE msgs

(* ------------------------------- state -------------------------------- *)
VARIABLES
    route,        \* which page the router has mounted
    student,      \* useAuthStore().student
    op,           \* the handler or callback that ran last, with its argument
    subjectId,    \* LearningPage route parameter
    chapterId,    \* LearningPage route parameter
    messages,     \* LearningPage state
    input,        \* LearningPage state
    isLoading,    \* LearningPage state
    error,        \* LearningPage state
    chatCall,     \* the POST /ask in flight, if any
    chatElapsed,  \* ms since the call in flight was issued (0 when none is)
    abortTimer,   \* the setTimeout(() => controller.abort(), 15000) of that call
    sessionTime,  \* LearningPage state, seconds
    sessionTimer, \* the setInterval of the session timer effect
    step,            \* QuizPage state
    subject,         \* QuizPage state
    quizChapterId,   \* QuizPage state chapterId
    quiz,            \* QuizPage state
    answers,         \* QuizPage state: question id -> chosen option
    currentQ,        \* QuizPage state (0-based)
    result,          \* QuizPage state
    loading,         \* QuizPage state
    quizError,       \* QuizPage state error
    subjectOptions,  \* QuizPage state
    chaptersLoading, \* QuizPage state
    catalogFetch,    \* where fetchSubjects stands: "subjects", "chapters", "done"
    quizCall,        \* the POST /quiz/generate or /quiz/submit in flight, if any
    now,             \* Date.now(), in ms since QuizPage was mounted
    startTime,       \* QuizPage state: useState(Date.now())
    quizStartedAt,   \* history: Date.now() when the last generation request went out
    restarted,       \* history: New Quiz has been pressed on this page
    videos,          \* VideoLibraryPage state
    videoLoading,    \* VideoLibraryPage state loading
    watchingId,      \* VideoLibraryPage state
    videosFetch,     \* the GET /videos of fetchVideos is in flight
    watchTimers,     \* per video: handleWatch timeouts (1500 ms) not yet run
    watchPosts       \* per video: POST /videos/{id}/watch in flight

chatVars == <<subjectId, chapterId, messages, input, isLoading, error,
              chatCall, chatElapsed, abortTimer, sessionTime, sessionTimer>>

quizVars == <<step, subject, quizChapterId, quiz, answers, currentQ, result, loading,
              quizError, subjectOptions, chaptersLoading, catalogFetch, quizCall,
              now, startTime, quizStartedAt, restarted>>

videoVars == <<videos, videoLoading, watchingId, videosFetch, watchTimers, watchPosts>>

vars == <<route, student, op, chatVars, quizVars, videoVars>>

(* ---------------------------- chat controller ------------------------- *)
ChatInit ==
    /\ subjectId \in LearnSubjects
    /\ chapterId \in Chapters
    /\ messages = GreetingEffect(<<>>, student, chapterId)
    /\ input = <<>>
    /\ isLoading = FALSE
    /\ error = Null
    /\ chatCall = Null
    /\ chatElapsed = 0
    /\ abortTimer = "unset"
    /\ sessionTime = 0
    /\ sessionTimer = "armed"

\* LearningPage is not mounted.
ChatIdle ==
    /\ subjectId = ""
    /\ chapterId = ""
    /\ messages = <<>>
    /\ input = <<>>
    /\ isLoading = FALSE
    /\ error = Null
    /\ chatCall = Null
    /\ chatElapsed = 0
    /\ abortTimer = "unset"
    /\ sessionTime = 0
    /\ sessionTimer = "unset"

\* The router re-renders the same LearningPage element with other route
\* parameters; the greeting effect re-runs when chapterId changed.
ChangeRoute(s, c) ==
    /\ route = "learn"
    /\ <<s, c>> # <<subjectId, chapterId>>
    /\ subjectId' = s
    /\ chapterId' = c
    /\ messages' = IF c # chapterId THEN GreetingEffect(messages, student, c) ELSE messages
    /\ op' = Op("changeRoute", <<s, c>>)
    /\ UNCHANGED quizVars
    /\ UNCHANGED videoVars
    /\ UNCHANGED <<sessionTime, sessionTimer>>
    /\ UNCHANGED <<route, student, input, isLoading, error, chatCall, chatElapsed, abortTimer>>

\* onChange of the input control, which is disabled while isLoading.
SetInput(t) ==
    /\ route = "learn"
    /\ ~isLoading
    /\ input' = t
    /\ op' = Op("setInput", t)
    /\ UNCHANGED quizVars
    /\ UNCHANGED videoVars
    /\ UNCHANGED <<sessionTime, sessionTimer>>
    /\ UNCHANGED <<route, student, subjectId, chapterId, messages, isLoading, error,
                   chatCall, chatElapsed, abortTimer>>

\* The quick-suggestion buttons, rendered while messages.length <= 1.
QuickQuestion(q) ==
    /\ route = "learn"
    /\ Len(messages) <= 1
    /\ input' = q
    /\ op' = Op("quickQuestion", q)
    /\ UNCHANGED quizVars
    /\ UNCHANGED videoVars
    /\ UNCHANGED <<sessionTime, sessionTimer>>
    /\ UNCHANGED <<route, student, subjectId, chapterId, messages, isLoading, error,
                   chatCall, chatElapsed, abortTimer>>

\* The early-return test of handleSendMessage without the trim.
SendAccepted_NoTrim ==
    /\ input # <<>>
    /\ student # Null
    /\ subjectId # ""
    /\ chapterId # ""
    /\ ~isLoading

\* The condition under which handleSendMessage does not return early.
SendAccepted ==
    /\ Trim(input) # <<>>
    /\ student # Null
    /\ subjectId # ""
    /\ chapterId # ""
    /\ ~isLoading

handleSendMessage ==
    /\ route = "learn"
    /\ Len(messages) + 2 <= MaxMessages
    /\ op' = Op("send", Null)
    /\ IF SendAccepted
       THEN /\ messages' = Append(messages, UserMessage(input))
            /\ input' = <<>>
            /\ isLoading' = TRUE
            /\ error' = Null
            /\ chatCall' = Some([student_id |-> student[1].id, question |-> input,
                                 subject |-> subjectId, chapter_id |-> chapterId])
            /\ chatElapsed' = 0
            /\ abortTimer' = "armed"
       ELSE UNCHANGED <<messages, input, isLoading, error, chatCall, chatElapsed, abortTimer>>
    /\ UNCHANGED quizVars
    /\ UNCHANGED videoVars
    /\ UNCHANGED <<sessionTime, sessionTimer>>
    /\ UNCHANGED <<route, student, subjectId, chapterId>>

\* Time passes while the call is in flight, up to the next timer that is
\* due; a timer that is due runs before time passes again.
ChatTick ==
    /\ route = "learn"
    /\ chatCall # Null
    /\ chatElapsed < ApiTimeoutMs
    /\ ~(abortTimer = "armed" /\ chatElapsed >= ChatTimeoutMs)
    /\ chatElapsed' = Min(chatElapsed + TickMs,
                          IF abortTimer = "armed" /\ chatElapsed < ChatTimeoutMs
                          THEN ChatTimeoutMs ELSE ApiTimeoutMs)
    /\ op' = Op("tick", Null)
    /\ UNCHANGED quizVars
    /\ UNCHANGED videoVars
    /\ UNCHANGED <<sessionTime, sessionTimer>>
    /\ UNCHANGED <<route, student, subjectId, chapterId, messages, input, isLoading, error,
                   chatCall, abortTimer>>

\* The 15 s timer runs controller.abort(); the controller's signal was not
\* handed to chatService.ask, so the call in flight is not affected.
AbortTimerFires ==
    /\ route = "learn"
    /\ abortTimer = "armed"
    /\ chatCall # Null
    /\ chatElapsed >= ChatTimeoutMs
    /\ abortTimer' = "fired"
    /\ op' = Op("abortTimer", Null)
    /\ UNCHANGED quizVars
    /\ UNCHANGED videoVars
    /\ UNCHANGED <<sessionTime, sessionTimer>>
    /\ UNCHANGED <<route, student, subjectId, chapterId, messages, input, isLoading, error,
                   chatCall, chatElapsed>>

\* chatService.ask resolves: the rest of the try block, then finally.
AskResolve(response) ==
    /\ route = "learn"
    /\ chatCall # Null
    /\ chatElapsed < ApiTimeoutMs
    /\ abortTimer' = IF abortTimer = "armed" THEN "cleared" ELSE abortTimer
    /\ messages' = Append(messages, AnswerMessage(response))
    /\ isLoading' = FALSE
    /\ chatCall' = Null
    /\ chatElapsed' = 0
    /\ op' = Op("askResolve", response)
    /\ UNCHANGED quizVars
    /\ UNCHANGED videoVars
    /\ UNCHANGED <<sessionTime, sessionTimer>>
    /\ UNCHANGED <<route, student, subjectId, chapterId, input, error>>

\* The catch block without its setMessages: no substitute reply.
AskReject_NoMessage(err) ==
    /\ route = "learn"
    /\ chatCall # Null
    /\ (err = TimeoutError) <=> (chatElapsed >= ApiTimeoutMs)
    /\ error' = IF isTimeout(err) THEN TimeoutWarning ELSE ConnectionWarning
    /\ isLoading' = FALSE
    /\ chatCall' = Null
    /\ chatElapsed' = 0
    /\ op' = Op("askReject", err)
    /\ UNCHANGED quizVars
    /\ UNCHANGED videoVars
    /\ UNCHANGED <<sessionTime, sessionTimer>>
    /\ UNCHANGED <<route, student, subjectId, chapterId, messages, input, abortTimer>>

\* chatService.ask rejects: the catch block, then finally.  The transport
\* raises its timeout error exactly when its 120 s ceiling is reached.
AskReject(err) ==
    /\ route = "learn"
    /\ chatCall # Null
    /\ (err = TimeoutError) <=> (chatElapsed >= ApiTimeoutMs)
    /\ error' = IF isTimeout(err) THEN TimeoutWarning ELSE ConnectionWarning
    /\ messages' = Append(messages,
                          ErrorMessage(IF isTimeout(err) THEN TimeoutText ELSE ConnectionText))
    /\ isLoading' = FALSE
    /\ chatCall' = Null
    /\ chatElapsed' = 0
    /\ op' = Op("askReject", err)
    /\ UNCHANGED quizVars
    /\ UNCHANGED videoVars
    /\ UNCHANGED <<sessionTime, sessionTimer>>
    /\ UNCHANGED <<route, student, subjectId, chapterId, input, abortTimer>>

\* A session timer effect whose cleanup does not clear the interval.
LeaveLearning_NoCleanup ==
    /\ route = "learn"
    /\ route' = "none"
    /\ op' = Op("unmount", Null)
    /\ UNCHANGED quizVars
    /\ UNCHANGED videoVars
    /\ UNCHANGED <<student, subjectId, chapterId, messages, input, isLoading, error,
                   chatCall, chatElapsed, abortTimer, sessionTime, sessionTimer>>

\* LearningPage unmounts (navigation to another route): the cleanup of the
\* session timer effect runs clearInterval.
LeaveLearning ==
    /\ route = "learn"
    /\ route' = "none"
    /\ sessionTimer' = "cleared"
    /\ op' = Op("unmount", Null)
    /\ UNCHANGED quizVars
    /\ UNCHANGED videoVars
    /\ UNCHANGED <<student, subjectId, chapterId, messages, input, isLoading, error,
                   chatCall, chatElapsed, abortTimer, sessionTime>>

\* The interval callback: setSessionTime(t => t + 1), every 1000 ms while
\* the interval is set.
SessionTick ==
    /\ sessionTimer = "armed"
    /\ sessionTime < MaxSessionTime
    /\ sessionTime' = sessionTime + 1
    /\ op' = Op("sessionTick", Null)
    /\ UNCHANGED quizVars
    /\ UNCHANGED videoVars
    /\ UNCHANGED <<route, student, subjectId, chapterId, messages, input, isLoading, error,
                   chatCall, chatElapsed, abortTimer, sessionTimer>>

ChatSettle ==
    \/ \E response \in ChatResponses : AskResolve(response)
    \/ \E err \in AxiosErrors : AskReject(err)

ChatNext ==
    \/ \E s \in LearnSubjects, c \in Chapters : ChangeRoute(s, c)
    \/ \E t \in Texts : SetInput(t)
    \/ \E q \in quickQuestions : QuickQuestion(q)
    \/ handleSendMessage
    \/ ChatTick
    \/ AbortTimerFires
    \/ ChatSettle

(* ------------------------- quiz state machine ------------------------- *)
\* JavaScript truthiness of answers[id]: undefined and '' are falsy.
Answered(ans, id) == id \in DOMAIN ans /\ ans[id] # ""

\* A selection that clears the entry when the option is already chosen.
WithAnswer_Toggle(prev, questionId, answer) ==
    [k \in DOMAIN prev \cup {questionId} |->
        IF k # questionId THEN prev[k]
        ELSE IF questionId \in DOMAIN prev /\ prev[questionId] = answer THEN ""
        ELSE answer]

\* A selection that keeps the entry a question already has.
WithAnswer_KeepFirst(prev, questionId, answer) ==
    [k \in DOMAIN prev \cup {questionId} |->
        IF k \in DOMAIN prev THEN prev[k] ELSE answer]

\* { ...prev, [questionId]: answer }
WithAnswer(prev, questionId, answer) ==
    [k \in DOMAIN prev \cup {questionId} |-> IF k = questionId THEN answer ELSE prev[k]]

\* The test of the response reduced to res.data?.questions (an empty list
\* is truthy).
QuestionsLength_Presence(data) ==
    IF data = Null THEN 0
    ELSE IF data[1].questions = Null THEN 0
    ELSE 1

\* res.data?.questions?.length
QuestionsLength(data) ==
    IF data = Null THEN 0
    ELSE IF data[1].questions = Null THEN 0
    ELSE Len(data[1].questions[1])

\* student?.id
StudentId == IF student = Null THEN Null ELSE Some(student[1].id)

\* subjectOptions.find(s => s.id === subject)
selectedSubject ==
    LET hits == {i \in DOMAIN subjectOptions : subjectOptions[i].id = subject}
    IN IF hits = {} THEN Null
       ELSE Some(subjectOptions[CHOOSE i \in hits : \A j \in hits : i <= j])

\* the chapter buttons rendered: selectedSubject && selectedSubject.chapters
selectedChapters == IF selectedSubject = Null THEN <<>> ELSE selectedSubject[1].chapters

isLast == currentQ = Len(quiz[1].questions) - 1

allAnswered ==
    \A i \in DOMAIN quiz[1].questions : Answered(answers, quiz[1].questions[i].id)

\* The error text QuizPage renders: the banner {error && ...} is part of
\* the setup screen only; the quiz and result screens render no error.
displayedError == IF step = "setup" THEN quizError ELSE Null

\* Requests of fetchSubjects in flight: GET /subjects, then one
\* GET /subjects/{id}/chapters per subject, all started by Promise.all.
catalogInFlight ==
    CASE catalogFetch = "subjects" -> 1
      [] catalogFetch = "chapters" -> Len(Catalog)
      [] OTHER -> 0

\* Requests of QuizPage in flight.
quizInFlight == catalogInFlight + (IF quizCall = Null THEN 0 ELSE 1)

\* Requests of LearningPage in flight.
chatInFlight == IF chatCall = Null THEN 0 ELSE 1

\* Math.round((result.score / result.total) * 100): the nearest integer,
\* a half rounded up.
percentage == (200 * result[1].score + result[1].total) \div (2 * result[1].total)

\* const isGood = percentage >= 60
isGood == percentage >= 60

\* The state just after QuizPage's first render, fetchSubjects started.
QuizInit ==
    /\ step = "setup"
    /\ subject \in SubjectParams
    /\ quizChapterId \in ChapterParams
    /\ quiz = Null
    /\ answers = <<>>
    /\ currentQ = 0
    /\ result = Null
    /\ loading = FALSE
    /\ quizError = Null
    /\ subjectOptions = <<>>
    /\ chaptersLoading = TRUE
    /\ catalogFetch = "subjects"
    /\ quizCall = Null
    /\ now = 0
    /\ startTime = now
    /\ quizStartedAt = 0
    /\ restarted = FALSE

\* QuizPage is not mounted.
QuizIdle ==
    /\ step = "setup"
    /\ subject = ""
    /\ quizChapterId = ""
    /\ quiz = Null
    /\ answers = <<>>
    /\ currentQ = 0
    /\ result = Null
    /\ loading = FALSE
    /\ quizError = Null
    /\ subjectOptions = <<>>
    /\ chaptersLoading = FALSE
    /\ catalogFetch = "done"
    /\ quizCall = Null
    /\ now = 0
    /\ startTime = 0
    /\ quizStartedAt = 0
    /\ restarted = FALSE

\* fetchSubjects: GET /subjects resolved, the chapter requests go out.
SubjectsResolve ==
    /\ route = "quiz"
    /\ catalogFetch = "subjects"
    /\ catalogFetch' = "chapters"
    /\ op' = Op("subjectsResolve", Null)
    /\ UNCHANGED chatVars
    /\ UNCHANGED videoVars
    /\ UNCHANGED <<now, startTime, quizStartedAt, restarted>>
    /\ UNCHANGED <<route, student, step, subject, quizChapterId, quiz, answers, currentQ,
                   result, loading, quizError, subjectOptions, chaptersLoading, quizCall>>

\* fetchSubjects: Promise.all of the chapter requests resolved.
ChaptersResolve ==
    /\ route = "quiz"
    /\ catalogFetch = "chapters"
    /\ catalogFetch' = "done"
    /\ subjectOptions' = Catalog
    /\ chaptersLoading' = FALSE
    /\ op' = Op("chaptersResolve", Null)
    /\ UNCHANGED chatVars
    /\ UNCHANGED videoVars
    /\ UNCHANGED <<now, startTime, quizStartedAt, restarted>>
    /\ UNCHANGED <<route, student, step, subject, quizChapterId, quiz, answers, currentQ,
                   result, loading, quizError, quizCall>>

\* fetchSubjects: either request rejected (catch, finally).
CatalogReject ==
    /\ route = "quiz"
    /\ catalogFetch \in {"subjects", "chapters"}
    /\ catalogFetch' = "done"
    /\ chaptersLoading' = FALSE
    /\ op' = Op("catalogReject", Null)
    /\ UNCHANGED chatVars
    /\ UNCHANGED videoVars
    /\ UNCHANGED <<now, startTime, quizStartedAt, restarted>>
    /\ UNCHANGED <<route, student, step, subject, quizChapterId, quiz, answers, currentQ,
                   result, loading, quizError, subjectOptions, quizCall>>

\* A subject button of the setup screen.
SelectSubject(i) ==
    /\ route = "quiz"
    /\ step = "setup"
    /\ subject' = subjectOptions[i].id
    /\ quizChapterId' = ""
    /\ op' = Op("selectSubject", subjectOptions[i].id)
    /\ UNCHANGED chatVars
    /\ UNCHANGED videoVars
    /\ UNCHANGED <<now, startTime, quizStartedAt, restarted>>
    /\ UNCHANGED <<route, student, step, quiz, answers, currentQ, result, loading, quizError,
                   subjectOptions, chaptersLoading, catalogFetch, quizCall>>

\* A chapter button of the setup screen, rendered for selectedSubject.
SelectChapter(j) ==
    /\ route = "quiz"
    /\ step = "setup"
    /\ quizChapterId' = selectedChapters[j]
    /\ op' = Op("selectChapter", selectedChapters[j])
    /\ UNCHANGED chatVars
    /\ UNCHANGED videoVars
    /\ UNCHANGED <<now, startTime, quizStartedAt, restarted>>
    /\ UNCHANGED <<route, student, step, subject, quiz, answers, currentQ, result, loading,
                   quizError, subjectOptions, chaptersLoading, catalogFetch, quizCall>>

\* handleStartQuiz with an early return that tests the subject only.
handleStartQuiz_SubjectOnly ==
    /\ route = "quiz"
    /\ step = "setup"
    /\ ~loading
    /\ op' = Op("startQuiz", Null)
    /\ IF subject = ""
       THEN UNCHANGED <<loading, quizError, quizCall, quizStartedAt>>
       ELSE /\ loading' = TRUE
            /\ quizError' = Null
            /\ quizCall' = Some([kind |-> "generate", student_id |-> StudentId,
                                 subject |-> subject, chapter_id |-> quizChapterId,
                                 num_questions |-> 5])
            /\ quizStartedAt' = now
    /\ UNCHANGED chatVars
    /\ UNCHANGED videoVars
    /\ UNCHANGED <<now, startTime, restarted>>
    /\ UNCHANGED <<route, student, step, subject, quizChapterId, quiz, answers, currentQ,
                   result, subjectOptions, chaptersLoading, catalogFetch>>

\* The Start Quiz button (disabled while loading) and its handler, which
\* returns early without a subject or a chapter.
handleStartQuiz ==
    /\ route = "quiz"
    /\ step = "setup"
    /\ ~loading
    /\ op' = Op("startQuiz", Null)
    /\ IF subject = "" \/ quizChapterId = ""
       THEN UNCHANGED <<loading, quizError, quizCall, quizStartedAt>>
       ELSE /\ loading' = TRUE
            /\ quizError' = Null
            /\ quizCall' = Some([kind |-> "generate", student_id |-> StudentId,
                                 subject |-> subject, chapter_id |-> quizChapterId,
                                 num_questions |-> 5])
            /\ quizStartedAt' = now
    /\ UNCHANGED chatVars
    /\ UNCHANGED videoVars
    /\ UNCHANGED <<now, startTime, restarted>>
    /\ UNCHANGED <<route, student, step, subject, quizChapterId, quiz, answers, currentQ,
                   result, subjectOptions, chaptersLoading, catalogFetch>>

\* The empty-result return placed where finally does not cover it.
GenerateEmpty_NoFinally(data) ==
    /\ quizError' = Some(<<"Quiz returned no questions. Please try again.">>)
    /\ UNCHANGED <<quiz, step, currentQ, answers, loading>>

\* POST /quiz/generate resolved with a body that carries no question.
GenerateEmpty(data) ==
    /\ quizError' = Some(<<"Quiz returned no questions. Please try again.">>)
    /\ loading' = FALSE
    /\ UNCHANGED <<quiz, step, currentQ, answers>>

\* The success branch without setCurrentQ(0) and setAnswers({}).
GenerateStart_KeepAnswers(data) ==
    /\ quiz' = Some([quiz_id |-> data[1].quiz_id, difficulty |-> data[1].difficulty,
                     questions |-> data[1].questions[1]])
    /\ step' = "quiz"
    /\ loading' = FALSE
    /\ UNCHANGED <<quizError, currentQ, answers>>

\* POST /quiz/generate resolved with questions.
GenerateStart(data) ==
    /\ quiz' = Some([quiz_id |-> data[1].quiz_id, difficulty |-> data[1].difficulty,
                     questions |-> data[1].questions[1]])
    /\ step' = "quiz"
    /\ currentQ' = 0
    /\ answers' = <<>>
    /\ loading' = FALSE
    /\ UNCHANGED quizError

GenerateResolve(data) ==
    /\ route = "quiz"
    /\ quizCall # Null
    /\ quizCall[1].kind = "generate"
    /\ IF QuestionsLength(data) = 0 THEN GenerateEmpty(data) ELSE GenerateStart(data)
    /\ quizCall' = Null
    /\ op' = Op("generateResolve", data)
    /\ UNCHANGED chatVars
    /\ UNCHANGED videoVars
    /\ UNCHANGED <<now, startTime, quizStartedAt, restarted>>
    /\ UNCHANGED <<route, student, subject, quizChapterId, result, subjectOptions,
                   chaptersLoading, catalogFetch>>

GenerateReject(err) ==
    /\ route = "quiz"
    /\ quizCall # Null
    /\ quizCall[1].kind = "generate"
    /\ quizError' = IF Includes(err.message, "timeout")
                    THEN Some(<<"Server timed out. Try again.">>)
                    ELSE Some(<<"Failed to generate quiz. Check your connection.">>)
    /\ loading' = FALSE
    /\ quizCall' = Null
    /\ op' = Op("generateReject", err)
    /\ UNCHANGED chatVars
    /\ UNCHANGED videoVars
    /\ UNCHANGED <<now, startTime, quizStartedAt, restarted>>
    /\ UNCHANGED <<route, student, step, subject, quizChapterId, quiz, answers, currentQ,
                   result, subjectOptions, chaptersLoading, catalogFetch>>

\* An option button of the current question.
handleSelectAnswer(option) ==
    /\ route = "quiz"
    /\ step = "quiz"
    /\ quiz # Null
    /\ answers' = WithAnswer(answers, quiz[1].questions[currentQ + 1].id, option)
    /\ op' = Op("selectAnswer", <<quiz[1].questions[currentQ + 1].id, option>>)
    /\ UNCHANGED chatVars
    /\ UNCHANGED videoVars
    /\ UNCHANGED <<now, startTime, quizStartedAt, restarted>>
    /\ UNCHANGED <<route, student, step, subject, quizChapterId, quiz, currentQ, result,
                   loading, quizError, subjectOptions, chaptersLoading, catalogFetch, quizCall>>

\* The Previous button, rendered when currentQ > 0.
Previous ==
    /\ route = "quiz"
    /\ step = "quiz"
    /\ quiz # Null
    /\ currentQ > 0
    /\ currentQ' = currentQ - 1
    /\ op' = Op("previous", Null)
    /\ UNCHANGED chatVars
    /\ UNCHANGED videoVars
    /\ UNCHANGED <<now, startTime, quizStartedAt, restarted>>
    /\ UNCHANGED <<route, student, step, subject, quizChapterId, quiz, answers, result,
                   loading, quizError, subjectOptions, chaptersLoading, catalogFetch, quizCall>>

\* A Next button that is never disabled.
NextQuestion_NoAnswerCheck ==
    /\ route = "quiz"
    /\ step = "quiz"
    /\ quiz # Null
    /\ ~isLast
    /\ currentQ' = currentQ + 1
    /\ op' = Op("next", Null)
    /\ UNCHANGED chatVars
    /\ UNCHANGED videoVars
    /\ UNCHANGED <<now, startTime, quizStartedAt, restarted>>
    /\ UNCHANGED <<route, student, step, subject, quizChapterId, quiz, answers, result,
                   loading, quizError, subjectOptions, chaptersLoading, catalogFetch, quizCall>>

\* The Next button, rendered when not on the last question and disabled
\* until the current question is answered.
NextQuestion ==
    /\ route = "quiz"
    /\ step = "quiz"
    /\ quiz # Null
    /\ ~isLast
    /\ Answered(answers, quiz[1].questions[currentQ + 1].id)
    /\ currentQ' = currentQ + 1
    /\ op' = Op("next", Null)
    /\ UNCHANGED chatVars
    /\ UNCHANGED videoVars
    /\ UNCHANGED <<now, startTime, quizStartedAt, restarted>>
    /\ UNCHANGED <<route, student, step, subject, quizChapterId, quiz, answers, result,
                   loading, quizError, subjectOptions, chaptersLoading, catalogFetch, quizCall>>

\* A Submit Quiz button disabled only by !allAnswered.
handleSubmitQuiz_NoLoadingGuard ==
    /\ route = "quiz"
    /\ step = "quiz"
    /\ quiz # Null
    /\ isLast
    /\ allAnswered
    /\ loading' = TRUE
    /\ quizError' = Null
    /\ quizCall' = Some([kind |-> "submit", student_id |-> StudentId,
                         quiz_id |-> quiz[1].quiz_id, answers |-> answers,
                         time_taken |-> [num |-> now - startTime, den |-> 1000]])
    /\ op' = Op("submitQuiz", Null)
    /\ UNCHANGED chatVars
    /\ UNCHANGED videoVars
    /\ UNCHANGED <<now, startTime, quizStartedAt, restarted>>
    /\ UNCHANGED <<route, student, step, subject, quizChapterId, quiz, answers, currentQ,
                   result, subjectOptions, chaptersLoading, catalogFetch>>

\* The Submit Quiz button (rendered on the last question, disabled unless
\* allAnswered and not loading) and its handler.  time_taken, the quotient
\* (Date.now() - startTime) / 1000, is kept as numerator and denominator.
handleSubmitQuiz ==
    /\ route = "quiz"
    /\ step = "quiz"
    /\ quiz # Null
    /\ isLast
    /\ allAnswered
    /\ ~loading
    /\ loading' = TRUE
    /\ quizError' = Null
    /\ quizCall' = Some([kind |-> "submit", student_id |-> StudentId,
                         quiz_id |-> quiz[1].quiz_id, answers |-> answers,
                         time_taken |-> [num |-> now - startTime, den |-> 1000]])
    /\ op' = Op("submitQuiz", Null)
    /\ UNCHANGED chatVars
    /\ UNCHANGED videoVars
    /\ UNCHANGED <<now, startTime, quizStartedAt, restarted>>
    /\ UNCHANGED <<route, student, step, subject, quizChapterId, quiz, answers, currentQ,
                   result, subjectOptions, chaptersLoading, catalogFetch>>

SubmitResolve(data) ==
    /\ route = "quiz"
    /\ quizCall # Null
    /\ quizCall[1].kind = "submit"
    /\ result' = data
    /\ step' = "result"
    /\ loading' = FALSE
    /\ quizCall' = Null
    /\ op' = Op("submitResolve", data)
    /\ UNCHANGED chatVars
    /\ UNCHANGED videoVars
    /\ UNCHANGED <<now, startTime, quizStartedAt, restarted>>
    /\ UNCHANGED <<route, student, subject, quizChapterId, quiz, answers, currentQ,
                   quizError, subjectOptions, chaptersLoading, catalogFetch>>

SubmitReject(err) ==
    /\ route = "quiz"
    /\ quizCall # Null
    /\ quizCall[1].kind = "submit"
    /\ quizError' = Some(<<"Failed to submit quiz. Your answers were not saved.">>)
    /\ loading' = FALSE
    /\ quizCall' = Null
    /\ op' = Op("submitReject", err)
    /\ UNCHANGED chatVars
    /\ UNCHANGED videoVars
    /\ UNCHANGED <<now, startTime, quizStartedAt, restarted>>
    /\ UNCHANGED <<route, student, step, subject, quizChapterId, quiz, answers, currentQ,
                   result, subjectOptions, chaptersLoading, catalogFetch>>

\* The New Quiz button of the result screen.
NewQuiz ==
    /\ route = "quiz"
    /\ step = "result"
    /\ result # Null
    /\ step' = "setup"
    /\ quiz' = Null
    /\ result' = Null
    /\ restarted' = TRUE
    /\ op' = Op("newQuiz", Null)
    /\ UNCHANGED chatVars
    /\ UNCHANGED videoVars
    /\ UNCHANGED <<now, startTime, quizStartedAt>>
    /\ UNCHANGED <<route, student, subject, quizChapterId, answers, currentQ, loading,
                   quizError, subjectOptions, chaptersLoading, catalogFetch, quizCall>>

\* Time passes on the quiz page.
QuizTick ==
    /\ route = "quiz"
    /\ now < MaxNow
    /\ now' = now + 1
    /\ op' = Op("quizTick", Null)
    /\ UNCHANGED chatVars
    /\ UNCHANGED videoVars
    /\ UNCHANGED <<route, student, step, subject, quizChapterId, quiz, answers, currentQ,
                   result, loading, quizError, subjectOptions, chaptersLoading, catalogFetch,
                   quizCall, startTime, quizStartedAt, restarted>>

QuizSettle ==
    \/ \E data \in GenerateResponses : GenerateResolve(data)
    \/ \E err \in AxiosErrors : GenerateReject(err)
    \/ \E data \in SubmitResponses : SubmitResolve(data)
    \/ \E err \in AxiosErrors : SubmitReject(err)

QuizNext ==
    \/ SubjectsResolve
    \/ ChaptersResolve
    \/ CatalogReject
    \/ \E i \in DOMAIN subjectOptions : SelectSubject(i)
    \/ \E j \in DOMAIN selectedChapters : SelectChapter(j)
    \/ handleStartQuiz
    \/ \E option \in {OptionList[k] : k \in DOMAIN OptionList} : handleSelectAnswer(option)
    \/ Previous
    \/ NextQuestion
    \/ handleSubmitQuiz
    \/ NewQuiz
    \/ QuizSettle

(* ----------------------------- video library -------------------------- *)
\* handleWatch operations of a video that have not finished.
pendingWatches(v) == watchTimers[v] + watchPosts[v]

\* The state just after VideoLibraryPage's first render, fetchVideos started.
VideoInit ==
    /\ videos = <<>>
    /\ videoLoading = TRUE
    /\ watchingId = Null
    /\ videosFetch = TRUE
    /\ watchTimers = [v \in VideoIds |-> 0]
    /\ watchPosts = [v \in VideoIds |-> 0]

\* VideoLibraryPage is not mounted.
VideoIdle ==
    /\ videos = <<>>
    /\ videoLoading = FALSE
    /\ watchingId = Null
    /\ videosFetch = FALSE
    /\ watchTimers = [v \in VideoIds |-> 0]
    /\ watchPosts = [v \in VideoIds |-> 0]

\* fetchVideos: GET /videos resolved.
VideosResolve(data) ==
    /\ route = "videos"
    /\ videosFetch
    /\ videos' = data
    /\ videoLoading' = FALSE
    /\ videosFetch' = FALSE
    /\ op' = Op("videosResolve", data)
    /\ UNCHANGED chatVars
    /\ UNCHANGED quizVars
    /\ UNCHANGED <<route, student, watchingId, watchTimers, watchPosts>>

\* fetchVideos: GET /videos rejected (catch, finally).
VideosReject ==
    /\ route = "videos"
    /\ videosFetch
    /\ videoLoading' = FALSE
    /\ videosFetch' = FALSE
    /\ op' = Op("videosReject", Null)
    /\ UNCHANGED chatVars
    /\ UNCHANGED quizVars
    /\ UNCHANGED <<route, student, videos, watchingId, watchTimers, watchPosts>>

\* A Watch button that is not disabled for a watched video, with a click
\* handler that does not test video.watched.
handleWatch_NoWatchedCheck(i) ==
    /\ route = "videos"
    /\ ~videoLoading
    /\ watchingId # Some(videos[i].id)
    /\ watchTimers[videos[i].id] + watchPosts[videos[i].id] < MaxWatchOps
    /\ watchingId' = Some(videos[i].id)
    /\ watchTimers' = [watchTimers EXCEPT ![videos[i].id] = @ + 1]
    /\ op' = Op("watch", videos[i].id)
    /\ UNCHANGED chatVars
    /\ UNCHANGED quizVars
    /\ UNCHANGED <<route, student, videos, videoLoading, videosFetch, watchPosts>>

\* The Watch button of the card of videos[i] (the cards are rendered once
\* loading is false; the button is disabled when the video is watched or
\* is the one watchingId names) and handleWatch up to its setTimeout.
handleWatch(i) ==
    /\ route = "videos"
    /\ ~videoLoading
    /\ ~videos[i].watched
    /\ watchingId # Some(videos[i].id)
    /\ watchTimers[videos[i].id] + watchPosts[videos[i].id] < MaxWatchOps
    /\ watchingId' = Some(videos[i].id)
    /\ watchTimers' = [watchTimers EXCEPT ![videos[i].id] = @ + 1]
    /\ op' = Op("watch", videos[i].id)
    /\ UNCHANGED chatVars
    /\ UNCHANGED quizVars
    /\ UNCHANGED <<route, student, videos, videoLoading, videosFetch, watchPosts>>

\* The timeout of a handleWatch(v) runs: POST /videos/{v}/watch goes out.
WatchTimerFires(v) ==
    /\ route = "videos"
    /\ watchTimers[v] > 0
    /\ watchTimers' = [watchTimers EXCEPT ![v] = @ - 1]
    /\ watchPosts' = [watchPosts EXCEPT ![v] = @ + 1]
    /\ op' = Op("watchTimer", v)
    /\ UNCHANGED chatVars
    /\ UNCHANGED quizVars
    /\ UNCHANGED <<route, student, videos, videoLoading, watchingId, videosFetch>>

\* POST /videos/{v}/watch resolved: the flag of v is set, then finally.
WatchResolve(v) ==
    /\ route = "videos"
    /\ watchPosts[v] > 0
    /\ watchPosts' = [watchPosts EXCEPT ![v] = @ - 1]
    /\ videos' = [i \in DOMAIN videos |->
                     IF videos[i].id = v THEN [videos[i] EXCEPT !.watched = TRUE]
                     ELSE videos[i]]
    /\ watchingId' = Null
    /\ op' = Op("watchResolve", v)
    /\ UNCHANGED chatVars
    /\ UNCHANGED quizVars
    /\ UNCHANGED <<route, student, videoLoading, videosFetch, watchTimers>>

\* POST /videos/{v}/watch rejected: catch, then finally.
WatchReject(v) ==
    /\ route = "videos"
    /\ watchPosts[v] > 0
    /\ watchPosts' = [watchPosts EXCEPT ![v] = @ - 1]
    /\ watchingId' = Null
    /\ op' = Op("watchReject", v)
    /\ UNCHANGED chatVars
    /\ UNCHANGED quizVars
    /\ UNCHANGED <<route, student, videos, videoLoading, videosFetch, watchTimers>>

VideoNext ==
    \/ \E data \in VideoLists : VideosResolve(data)
    \/ VideosReject
    \/ \E i \in DOMAIN videos : handleWatch(i)
    \/ \E v \in VideoIds : WatchTimerFires(v)
    \/ \E v \in VideoIds : WatchResolve(v)
    \/ \E v \in VideoIds : WatchReject(v)

Init ==
    /\ route \in {"learn", "quiz"}
    /\ student \in {Null} \cup {Some(s) : s \in Students}
    /\ op = Op("mount", Null)
    /\ IF route = "learn" THEN ChatInit ELSE ChatIdle
    /\ IF route = "quiz" THEN QuizInit ELSE QuizIdle
    /\ VideoIdle

Next == ChatNext \/ QuizNext

Spec == Init /\ [][Next]_vars

(* --------------------------- specifications --------------------------- *)
\* The video library page.
VideoPageInit ==
    /\ route = "videos"
    /\ student \in {Null} \cup {Some(st) : st \in Students}
    /\ op = Op("mount", Null)
    /\ ChatIdle
    /\ QuizIdle
    /\ VideoInit

VideoSpec == VideoPageInit /\ [][VideoNext]_vars

\* The learning screen with its session clock, until it unmounts; questions
\* are put through the quick-question buttons.
ClockInit == Init /\ route = "learn"

ClockNext ==
    \/ \E s \in LearnSubjects, c \in Chapters : ChangeRoute(s, c)
    \/ \E q \in quickQuestions : QuickQuestion(q)
    \/ handleSendMessage
    \/ ChatTick
    \/ AbortTimerFires
    \/ ChatSettle
    \/ SessionTick
    \/ LeaveLearning

ClockSpec == ClockInit /\ [][ClockNext]_vars

\* The result screen over every score: a one-question quiz whose submission
\* is in flight, answered by any score and total.
ResultInit ==
    /\ route = "quiz"
    /\ student \in {Null} \cup {Some(st) : st \in Students}
    /\ op = Op("submitQuiz", Null)
    /\ ChatIdle
    /\ step = "quiz"
    /\ subject = "math"
    /\ quizChapterId = "ch1_linear_equations"
    /\ quiz = Some([quiz_id |-> "quiz-a", difficulty |-> "easy",
                    questions |-> <<Question(1)>>])
    /\ answers = <<"A">>
    /\ currentQ = 0
    /\ result = Null
    /\ loading = TRUE
    /\ quizError = Null
    /\ subjectOptions = Catalog
    /\ chaptersLoading = FALSE
    /\ catalogFetch = "done"
    /\ quizCall = Some([kind |-> "submit", student_id |-> StudentId,
                        quiz_id |-> "quiz-a", answers |-> <<"A">>,
                        time_taken |-> [num |-> 0, den |-> 1000]])
    /\ now = 0
    /\ startTime = 0
    /\ quizStartedAt = 0
    /\ restarted = FALSE
    /\ VideoIdle

ResultNext ==
    \/ \E data \in ScoredResponses : SubmitResolve(data)
    \/ NewQuiz

ResultSpec == ResultInit /\ [][ResultNext]_vars

\* A network call in flight eventually settles.
LiveSpec == Spec /\ WF_vars(ChatSettle) /\ WF_vars(QuizSettle)

\* The quiz page with the passage of time.
TimedInit == Init /\ route = "quiz"

TimedNext == QuizNext \/ QuizTick

TimedSpec == TimedInit /\ [][TimedNext]_vars

(* ------------------------------ properties ---------------------------- *)
\* The history without the greeting.
Exchanges ==
    IF messages # <<>> /\ messages[1].id = "init" THEN Tail(messages) ELSE messages

CountRole(msgs, r) == Cardinality({i \in DOMAIN msgs : msgs[i].role = r})

\* C1: after the greeting the history alternates user message, assistant
\* message: each accepted send puts its user message first and is followed
\* by exactly one assistant message; when idle the assistant replies are as
\* many as the user messages, while a response is awaited exactly one less.
C1_OneReplyPerSend ==
    /\ \A i \in DOMAIN Exchanges :
          Exchanges[i].role = IF i % 2 = 1 THEN "user" ELSE "assistant"
    /\ ~isLoading => CountRole(Exchanges, "assistant") = CountRole(Exchanges, "user")
    /\ isLoading => CountRole(Exchanges, "assistant") = CountRole(Exchanges, "user") - 1

C1_Witness ==
    /\ ~isLoading
    /\ Len(Exchanges) = 4
    /\ Exchanges[2].content = TimeoutText
    /\ Exchanges[4].content \notin {TimeoutText, ConnectionText}

\* C2: the question-answering call is bound to 15000 ms: a response is
\* never still awaited once more than 15000 ms have passed since the send.
C2_AbandonedAtDeadline == isLoading => chatElapsed <= ChatTimeoutMs

\* C3: the history before a step is a prefix of the history after it.
C3_AppendOnly == [][IsPrefix(messages, messages')]_vars

C3_Witness ==
    /\ op.name = "changeRoute"
    /\ Len(messages) >= 3
    /\ messages[1].id = "init"

\* C4: a send with blank input, without student, subject or chapter, or
\* while a response is pending changes nothing of the chat controller and
\* issues no request.
C4_SendSkipped ==
    [][(/\ op'.name = "send"
        /\ \/ \A i \in DOMAIN input : input[i] = " "
           \/ student = Null
           \/ subjectId = ""
           \/ chapterId = ""
           \/ isLoading)
       => UNCHANGED chatVars]_vars

C4_Witness ==
    /\ op.name = "send"
    /\ input # <<>>
    /\ Trim(input) = <<>>
    /\ student # Null
    /\ chatCall = Null

\* C5: a resolved call appends the response's answer, difficulty and
\* sources and sets no warning; the transport's timeout appends the
\* "taking too long" text with the timeout warning; any other rejection
\* appends the "trouble connecting" text with the generic warning; the two
\* fixed texts never stand last with the other one's warning.
C5_OutcomeConsistent ==
    /\ [](messages # <<>> =>
            /\ ~(Last(messages).content = TimeoutText /\ error = ConnectionWarning)
            /\ ~(Last(messages).content = ConnectionText /\ error = TimeoutWarning))
    /\ [][/\ op'.name = "askResolve" /\ chatCall # Null =>
                /\ Len(messages') = Len(messages) + 1
                /\ Last(messages').role = "assistant"
                /\ Last(messages').content = op'.arg.answer
                /\ Last(messages').difficulty = Some(op'.arg.difficulty)
                /\ Last(messages').sources = op'.arg.sources
                /\ error' = Null
          /\ op'.name = "askReject" /\ chatCall # Null =>
                /\ Len(messages') = Len(messages) + 1
                /\ Last(messages').role = "assistant"
                /\ Last(messages').content =
                       IF op'.arg.code = "ECONNABORTED" THEN TimeoutText ELSE ConnectionText
                /\ error' =
                       IF op'.arg.code = "ECONNABORTED" THEN TimeoutWarning
                       ELSE ConnectionWarning]_vars

C5_Witness ==
    /\ op.name = "askReject"
    /\ op.arg.code = "ECONNABORTED"
    /\ Last(messages).content = TimeoutText
    /\ error = TimeoutWarning

\* C6: a chat send that is awaiting its response eventually returns to
\* idle, and a startQuiz or submit that set loading eventually resets it,
\* provided the call in flight settles.
C6_PendingClears == (isLoading ~> ~isLoading) /\ (loading ~> ~loading)

C6_Witness ==
    /\ op.name = "generateResolve"
    /\ step = "setup"
    /\ quizError # Null
    /\ ~loading

\* C7: the greeting is in the history exactly when a student is available,
\* and no message other than the first is a greeting.
C7_OneGreeting ==
    /\ \A i \in DOMAIN messages : messages[i].id = "init" => i = 1
    /\ route = "learn" => ((student # Null) <=> (messages # <<>> /\ messages[1].id = "init"))

C7_Witness ==
    /\ op.name = "changeRoute"
    /\ Len(messages) > 1
    /\ messages[1].id = "init"
    /\ messages[2].role = "user"

\* C8: the answers sent by the submit that leads to the result screen hold
\* one entry per question: as many entries as the quiz has questions, and
\* every question id among the keys.
C8_SubmitNeedsAllAnswers ==
    [][(step = "quiz" /\ step' = "result") =>
          /\ quizCall # Null
          /\ quizCall[1].kind = "submit"
          /\ Cardinality(DOMAIN quizCall[1].answers) = Len(quiz[1].questions)
          /\ \A i \in DOMAIN quiz[1].questions :
                quiz[1].questions[i].id \in DOMAIN quizCall[1].answers]_vars

\* C9: a generation response without questions leaves the page in setup,
\* stores no quiz, sets an error and clears loading.
C9_EmptyGenerationAborts ==
    [][(/\ op'.name = "generateResolve"
        /\ quizCall # Null
        /\ \/ op'.arg = Null
           \/ op'.arg[1].questions = Null
           \/ op'.arg[1].questions = Some(<<>>))
       => /\ step = "setup"
          /\ step' = "setup"
          /\ quiz' = Null
          /\ quizError' # Null
          /\ ~loading'
          /\ quizCall' = Null]_vars

C9_Witness ==
    /\ op.name = "generateResolve"
    /\ op.arg # Null
    /\ op.arg[1].questions = Some(<<>>)
    /\ step = "setup"
    /\ quizError # Null

C11_GenerationStartsFresh ==
    [][(step # "quiz" /\ step' = "quiz") =>
          /\ op'.name = "generateResolve"
          /\ quiz' # Null
          /\ currentQ' = 0
          /\ answers' = <<>>]_vars

C11_Witness ==
    /\ restarted
    /\ op.name = "generateResolve"
    /\ step = "quiz"
    /\ currentQ = 0
    /\ answers = <<>>

\* C12: a selection writes the chosen option under the question's id and
\* leaves every other entry alone; when the question already had an entry
\* the number of entries does not change; and after a selection the entries
\* are never more than the questions of the quiz.
C12_SelectOverwrites ==
    [][op'.name = "selectAnswer" =>
          LET q == op'.arg[1]
              a == op'.arg[2]
          IN /\ DOMAIN answers' = DOMAIN answers \cup {q}
             /\ answers'[q] = a
             /\ \A k \in DOMAIN answers \ {q} : answers'[k] = answers[k]
             /\ q \in DOMAIN answers =>
                   Cardinality(DOMAIN answers') = Cardinality(DOMAIN answers)
             /\ Cardinality(DOMAIN answers') <= Len(quiz'[1].questions)]_vars

\* A question is answered again after the quiz was answered through to the
\* last question and the student went back.
C12_Witness ==
    /\ op.name = "selectAnswer"
    /\ step = "quiz"
    /\ currentQ = 0
    /\ Len(quiz[1].questions) > 1
    /\ op.arg[1] = quiz[1].questions[1].id
    /\ quiz[1].questions[2].id # op.arg[1]
    /\ quiz[1].questions[2].id \in DOMAIN answers

\* C13: in every state the keys of answers are ids of questions of the quiz
\* held (no key when no quiz is held), and on the quiz screen currentQ is an
\* index of a question of the quiz.
C13_AnswersWithinQuiz ==
    /\ DOMAIN answers \subseteq
          (IF quiz = Null THEN {}
           ELSE {quiz[1].questions[i].id : i \in DOMAIN quiz[1].questions})
    /\ step = "quiz" =>
          /\ quiz # Null
          /\ currentQ \in 0..(Len(quiz[1].questions) - 1)

\* C14: on the quiz screen currentQ changes only by Next (plus one, taken
\* only from a question that has an answer and is not the last) and by
\* Previous (minus one); a selection leaves currentQ alone; and Previous can
\* be taken exactly when currentQ > 0.
C14_PositionMovesByOne ==
    /\ [][(step = "quiz" /\ step' = "quiz") =>
             /\ currentQ' # currentQ => op'.name \in {"next", "previous"}
             /\ op'.name = "next" =>
                   /\ currentQ' = currentQ + 1
                   /\ currentQ + 1 < Len(quiz[1].questions)
                   /\ quiz[1].questions[currentQ + 1].id \in DOMAIN answers
                   /\ answers[quiz[1].questions[currentQ + 1].id] # ""
             /\ op'.name = "previous" => currentQ' = currentQ - 1
             /\ op'.name = "selectAnswer" => currentQ' = currentQ]_vars
    /\ [](step = "quiz" => (ENABLED Previous <=> currentQ > 0))

\* Back on the first question by Previous, after Next had left it.
C14_Witness ==
    /\ op.name = "previous"
    /\ step = "quiz"
    /\ currentQ = 0
    /\ ENABLED NextQuestion
    /\ ~ENABLED Previous

\* C15: when a submission is rejected the page stays on the quiz screen
\* with the quiz, the answers and the position the submit was issued from
\* (the answers sent, the last question), and nothing pending, so that
\* Submit Quiz can be pressed again with the same answers.
C15_FailedSubmitKeepsSession ==
    [][op'.name = "submitReject" =>
          /\ step' = "quiz"
          /\ quiz' = quiz
          /\ quiz'[1].quiz_id = quizCall[1].quiz_id
          /\ answers' = quizCall[1].answers
          /\ currentQ' = Len(quiz'[1].questions) - 1
          /\ ~loading']_vars

\* C16: from a rejected submission until the error is cleared, the page
\* (still on the quiz screen) displays the text that says the answers were
\* not saved.
C16_SubmitFailureShown ==
    (step = "quiz" /\ quizError = Some(<<"Failed to submit quiz. Your answers were not saved.">>))
        => displayedError = quizError

\* C17: the time_taken a submit sends is the time passed since the Start
\* Quiz press that produced the quiz being submitted.
C17_TimeTakenSinceQuizStart ==
    [][op'.name = "submitQuiz" =>
          quizCall'[1].time_taken = [num |-> now - quizStartedAt, den |-> 1000]]_vars

\* C18: while a submission is in flight no step changes answers or
\* currentQ, and when its response arrives the answers held are the answers
\* that were sent.
C18_AnswersFrozenWhileSubmitting ==
    [][(quizCall # Null /\ quizCall[1].kind = "submit") =>
          /\ answers' = answers
          /\ currentQ' = currentQ
          /\ op'.name = "submitResolve" => answers' = quizCall[1].answers]_vars

\* C19 (as stated): neither page ever has more than one request in flight,
\* the requests of the catalog, the generation and the submission of the
\* quiz page counted together.
C19_OneRemoteOperation == chatInFlight <= 1 /\ quizInFlight <= 1

\* C19 (amended): the pending flag of each controller is set exactly while
\* its call is in flight, and a question-answering call, a generation or a
\* submission is issued only when the controller has no such call in flight.
C19_OneUserCallPerController ==
    /\ [](isLoading <=> chatCall # Null)
    /\ [](loading <=> quizCall # Null)
    /\ [][/\ (op'.name = "send" /\ messages' # messages) => chatCall = Null
          /\ (op'.name = "startQuiz" /\ loading') => quizCall = Null
          /\ op'.name = "submitQuiz" => quizCall = Null]_vars

\* A generation issued while the chapter requests of the catalog are still
\* in flight.
C19_Witness ==
    /\ op.name = "startQuiz"
    /\ quizCall # Null
    /\ catalogFetch = "chapters"
    /\ quizInFlight > Len(Catalog)

\* C20: New Quiz leaves the page on the setup screen with no quiz, no
\* result, no answers and currentQ = 0.
C20_NewQuizResetsAll ==
    [][op'.name = "newQuiz" =>
          /\ step' = "setup"
          /\ quiz' = Null
          /\ result' = Null
          /\ answers' = <<>>
          /\ currentQ' = 0]_vars

\* C21: on the result screen the good-performance state is shown exactly
\* when score / total >= 0.6 on the exact ratio (10 * score >= 6 * total).
C21_GoodAtSixtyPercent ==
    (step = "result" /\ result # Null) =>
        (isGood <=> 10 * result[1].score >= 6 * result[1].total)

\* C22: once a submission has succeeded with XP gained, the student held
\* by the session store is eventually replaced by a re-queried profile: its
\* XP is no longer the XP stored at login.
C22_ProfileRefreshed ==
    \A st \in Students :
        (student = Some(st) /\ step = "result" /\ result # Null /\ result[1].xp_gained > 0)
            ~> (student # Null /\ student[1].xp # st.xp)

\* C23: selecting a subject clears the chapter, and on the setup screen a
\* chapter that is selected is a chapter of the subject that is selected.
C23_ChapterUnderSubject ==
    /\ [][op'.name = "selectSubject" => quizChapterId' = ""]_vars
    /\ []((route = "quiz" /\ step = "setup" /\ quizChapterId # "") =>
             \E i \in DOMAIN Catalog :
                /\ Catalog[i].id = subject
                /\ \E j \in DOMAIN Catalog[i].chapters :
                      Catalog[i].chapters[j] = quizChapterId)

\* C24: the session clock is 0 when the learning screen is entered; it
\* changes only by a tick of the mounted screen, which adds one; no other
\* step changes it, and none does after the screen has unmounted.
C24_SessionClockMonotonic ==
    /\ []((op.name = "mount" /\ route = "learn") => sessionTime = 0)
    /\ [][sessionTime' # sessionTime =>
             /\ route = "learn"
             /\ route' = "learn"
             /\ op'.name = "sessionTick"
             /\ sessionTime' = sessionTime + 1]_vars

\* The clock has ticked through a send and a change of chapter, and the
\* screen has then unmounted with the value kept.
C24_Witness ==
    /\ route = "none"
    /\ sessionTimer = "cleared"
    /\ sessionTime > 1
    /\ Len(messages) > 2

\* C25: on the quiz screen every question before the current one has a
\* recorded answer.
C25_EarlierQuestionsAnswered ==
    (step = "quiz" /\ quiz # Null) =>
        \A i \in 1..currentQ :
            /\ quiz[1].questions[i].id \in DOMAIN answers
            /\ answers[quiz[1].questions[i].id] # ""

\* On the last question of a quiz of several questions, answered through.
C25_Witness ==
    /\ step = "quiz"
    /\ op.name = "selectAnswer"
    /\ currentQ > 0
    /\ currentQ = Len(quiz[1].questions) - 1
    /\ \A i \in DOMAIN quiz[1].questions : quiz[1].questions[i].id \in DOMAIN answers

\* C26: on the quiz screen a quiz of at least one question is held, and on
\* the result screen a result is held.
C26_PhaseHasData ==
    /\ step = "quiz" => (quiz # Null /\ Len(quiz[1].questions) > 0)
    /\ step = "result" => result # Null

\* C27: while a generation is in flight the subject and the chapter do not
\* change, and the quiz that opens the quiz screen was requested for the
\* subject and the chapter selected when it opens.
C27_QuizMatchesSelection ==
    [][(quizCall # Null /\ quizCall[1].kind = "generate") =>
          /\ subject' = subject
          /\ quizChapterId' = quizChapterId
          /\ step' = "quiz" =>
                /\ quizCall[1].subject = subject'
                /\ quizCall[1].chapter_id = quizChapterId']_vars

\* C28: New Quiz leaves the subject and the chapter as they were, and the
\* setup screen it leads to has a subject and a chapter selected and nothing
\* pending, so that Start Quiz issues a generation at once.
C28_NewQuizKeepsSelection ==
    [][op'.name = "newQuiz" =>
          /\ subject' = subject
          /\ quizChapterId' = quizChapterId
          /\ subject' # ""
          /\ quizChapterId' # ""
          /\ ~loading']_vars

\* C29: the video watchingId names has an operation that has not finished,
\* and watchingId stops naming a video only when an operation of that same
\* video finishes.
C29_WatchingIndicatorFaithful ==
    /\ [](\A v \in VideoIds : watchingId = Some(v) => pendingWatches(v) > 0)
    /\ [][\A v \in VideoIds :
             (watchingId = Some(v) /\ watchingId' # Some(v)) =>
                 /\ op'.name \in {"watchResolve", "watchReject"}
                 /\ op'.arg = v]_vars

\* C30: once the list is loaded, a watched flag never goes back to false;
\* the list changes only when a mark-watched request resolves, and then
\* only in the entries of the video of that request; a rejected request
\* leaves the list as it was; and handleWatch starts only for a video
\* that is not marked watched.
C30_WatchedOnlyOnSuccess ==
    [][/\ (op'.name # "videosResolve" /\ videos' # videos) =>
             /\ op'.name = "watchResolve"
             /\ watchPosts[op'.arg] > 0
             /\ DOMAIN videos' = DOMAIN videos
             /\ \A i \in DOMAIN videos :
                   /\ videos'[i].id = videos[i].id
                   /\ videos[i].watched => videos'[i].watched
                   /\ videos'[i].watched # videos[i].watched => videos[i].id = op'.arg
       /\ op'.name = "watchReject" => videos' = videos
       /\ op'.name = "watch" =>
             \A i \in DOMAIN videos : videos[i].id = op'.arg => ~videos[i].watched]_vars

\* A second operation of the same video is still pending when the first
\* has marked it watched.
C30_Witness ==
    /\ op.name = "watchResolve"
    /\ \E i \in DOMAIN videos : videos[i].id = op.arg /\ videos[i].watched
    /\ pendingWatches(op.arg) > 0

====
